---- MODULE Spec2Model ----
(***************************************************************************)
(* Model of src/main.py: the Islamic Finance Standards API backend.        *)
(*                                                                         *)
(* Text is modelled as a sequence of tokens (each token a TLA+ string), so *)
(* that interpolation into a template is concatenation and "contains       *)
(* verbatim" is a contiguous sub-sequence.  A Python call that may raise   *)
(* is modelled by a completion record: [tag |-> "return", value |-> v] or  *)
(* [tag |-> "raise", exc |-> e]; an exception is [type, status, msg].      *)
(***************************************************************************)
EXTENDS Integers, Sequences, FiniteSets, TLC

VARIABLES
  env,        \* process environment: does TOGETHER_API_KEY have a value
  disk,       \* data/<file>.json: its text, or Absent
  proc,       \* "down" | "up" | "crashed"
  standards,  \* module-level lists loaded at import time
  examples,
  glossary,
  boots,      \* log of the startups: disk before, disk after, path taken, lists loaded
  last,       \* the request handled last, with its response and its generation calls
  asks,       \* requests handled by ask_question
  lookedUpExplanations, \* explanation requests whose standard and example were found
  lookedUpFeedbacks,    \* feedback requests whose standard and example were found
  outbound,   \* requests.post calls made so far
  handled     \* requests handled so far by the three POST endpoints

vars == <<env, disk, proc, standards, examples, glossary, boots, last,
          asks, lookedUpExplanations, lookedUpFeedbacks, outbound, handled>>

bootVars == <<env, disk, proc, standards, examples, glossary, boots>>
reqVars  == <<last, asks, lookedUpExplanations, lookedUpFeedbacks, outbound, handled>>

----------------------------------------------------------------------------
(* Bounds *)

MaxRequests == 2   \* requests handled in one behaviour
MaxStarts == 2     \* startups of the process in one behaviour

----------------------------------------------------------------------------
(* Text *)

Contains(s, sub) ==
  \E i \in 0..(Len(s) - Len(sub)) : SubSeq(s, i + 1, i + Len(sub)) = sub

StartsWith(s, p) == Len(s) >= Len(p) /\ SubSeq(s, 1, Len(p)) = p

----------------------------------------------------------------------------
(* Completions of a call *)

Return(v) == [tag |-> "return", value |-> v]
Raise(e)  == [tag |-> "raise", exc |-> e]

\* an exception object; status is 0 for everything but HTTPException
Exc(type, status, msg) == [type |-> type, status |-> status, msg |-> msg]

\* the classes `except Exception` catches among those the program can meet
ExceptionSubclasses ==
  {"ConnectionError", "Timeout", "JSONDecodeError", "KeyError", "IndexError",
   "HTTPException", "FileNotFoundError"}

\* the exceptions requests.post itself raises
RequestExceptions == {"ConnectionError", "Timeout"}

----------------------------------------------------------------------------
(* Reference data and its JSON text *)

Absent == <<"<no such file>">>

Files == {"standards", "examples", "glossary"}

S1 == [id |-> "FAS1", title_en |-> <<"Murabaha">>, title_ar |-> <<"al-Murabaha (ar)">>]
S2 == [id |-> "FAS2", title_en |-> <<"Ijarah">>, title_ar |-> <<"al-Ijarah (ar)">>]
E1 == [standard_id |-> "FAS1", scenario_en |-> <<"A bank buys a car">>,
       scenario_ar |-> <<"A bank buys a car (ar)">>]
E3 == [standard_id |-> "FAS3", scenario_en |-> <<"A lease of land">>,
       scenario_ar |-> <<"A lease of land (ar)">>]
G1 == [term |-> "Riba", definition |-> <<"interest">>]

\* the JSON text of each object the data files may hold
ObjectText ==
  [o \in {S1, S2, E1, E3, G1} |->
     CASE o = S1 -> "{FAS1}" [] o = S2 -> "{FAS2}" [] o = E1 -> "{EX-FAS1}"
       [] o = E3 -> "{EX-FAS3}" [] o = G1 -> "{Riba}"]

ObjectOf(tok) == CHOOSE o \in DOMAIN ObjectText : ObjectText[o] = tok

IsObjectText(tok) == \E o \in DOMAIN ObjectText : ObjectText[o] = tok

RECURSIVE dump_items(_)
dump_items(list) ==
  IF Len(list) = 0 THEN <<>>
  ELSE IF Len(list) = 1 THEN <<ObjectText[list[1]]>>
  ELSE <<ObjectText[list[1]], ", ">> \o dump_items(Tail(list))

\* json.dump(list, f): the text written for a list of objects
json_dump(list) == <<"[">> \o dump_items(list) \o <<"]">>

StripSpace(text) == SelectSeq(text, LAMBDA t : t # " ")

\* items of an array body: objects separated by ", "
RECURSIVE IsItems(_)
IsItems(toks) ==
  IF Len(toks) = 0 THEN FALSE
  ELSE IF Len(toks) = 1 THEN IsObjectText(toks[1])
  ELSE IsObjectText(toks[1]) /\ toks[2] = ", " /\ IsItems(SubSeq(toks, 3, Len(toks)))

IsJsonArray(text) ==
  LET t == StripSpace(text) IN
    /\ Len(t) >= 2
    /\ t[1] = "["
    /\ t[Len(t)] = "]"
    /\ (Len(t) = 2 \/ IsItems(SubSeq(t, 2, Len(t) - 1)))

RECURSIVE parse_items(_)
parse_items(toks) ==
  IF Len(toks) = 0 THEN <<>>
  ELSE IF Len(toks) = 1 THEN <<ObjectOf(toks[1])>>
  ELSE <<ObjectOf(toks[1])>> \o parse_items(SubSeq(toks, 3, Len(toks)))

\* json.load(f): the list a text holds, or JSONDecodeError
json_load(text) ==
  IF IsJsonArray(text)
  THEN LET t == StripSpace(text) IN Return(parse_items(SubSeq(t, 2, Len(t) - 1)))
  ELSE Raise(Exc("JSONDecodeError", 0, <<"Expecting value">>))

\* open(path, "r") followed by json.load
read_json(d, file) ==
  IF d[file] = Absent
  THEN Raise(Exc("FileNotFoundError", 0, <<"No such file or directory">>))
  ELSE json_load(d[file])

----------------------------------------------------------------------------
(* Startup: the module-level code, lines 14-16 and 86-113 *)

EmptyList == <<>>

\* the try block of lines 87-95: the three loads in order, stopping at the first
\* that raises
load_all(d) ==
  LET rs == read_json(d, "standards")
      re == read_json(d, "examples")
      rg == read_json(d, "glossary")
  IN IF rs.tag = "raise" THEN rs
     ELSE IF re.tag = "raise" THEN re
     ELSE IF rg.tag = "raise" THEN rg
     ELSE Return([standards |-> rs.value, examples |-> re.value, glossary |-> rg.value])

bootstrap_files_OnlyStandards(d) ==
  [f \in Files |-> IF f = "standards" THEN json_dump(EmptyList) ELSE d[f]]

\* the except FileNotFoundError block of lines 96-113: three empty lists, and the
\* three files written with them
bootstrap_files(d) == [f \in Files |-> json_dump(EmptyList)]

\* the whole data loading: the path taken, the lists in memory and the disk after
load_data(d) ==
  LET r == load_all(d) IN
    IF r.tag = "return"
    THEN [path |-> "loaded", standards |-> r.value.standards,
          examples |-> r.value.examples, glossary |-> r.value.glossary, disk |-> d]
    ELSE IF r.exc.type = "FileNotFoundError"
    THEN [path |-> "bootstrap", standards |-> EmptyList, examples |-> EmptyList,
          glossary |-> EmptyList, disk |-> bootstrap_files(d)]
    ELSE [path |-> "crashed", standards |-> EmptyList, examples |-> EmptyList,
          glossary |-> EmptyList, disk |-> d]

\* lines 14-16, then the data loading; a missing key ends the import before any file
\* is opened
module_import(e, d) ==
  IF ~e.TOGETHER_API_KEY
  THEN [path |-> "no api key", standards |-> EmptyList, examples |-> EmptyList,
        glossary |-> EmptyList, disk |-> d]
  ELSE load_data(d)

Startup ==
  /\ proc = "down"
  /\ Len(boots) < MaxStarts
  /\ LET m == module_import(env, disk) IN
       /\ proc' = (IF m.path \in {"loaded", "bootstrap"} THEN "up" ELSE "crashed")
       /\ standards' = m.standards
       /\ examples' = m.examples
       /\ glossary' = m.glossary
       /\ disk' = m.disk
       /\ boots' = Append(boots, [before |-> disk, after |-> m.disk, path |-> m.path,
                                  standards |-> m.standards, examples |-> m.examples,
                                  glossary |-> m.glossary])
  /\ UNCHANGED <<env, reqVars>>

\* the process ends (uvicorn stops, or the import failed); its memory is gone
Exit ==
  /\ proc \in {"up", "crashed"}
  /\ proc' = "down"
  /\ standards' = EmptyList
  /\ examples' = EmptyList
  /\ glossary' = EmptyList
  /\ UNCHANGED <<env, disk, boots, reqVars>>

Malformed == <<"[">>

FileTexts(f) ==
  CASE f = "standards" ->
         {Absent, json_dump(<<>>), <<"[", " ", "]">>, json_dump(<<S1, S2>>), Malformed}
    [] f = "examples" -> {Absent, json_dump(<<>>), json_dump(<<E1, E3>>), Malformed}
    [] f = "glossary" -> {Absent, json_dump(<<>>), json_dump(<<G1>>)}

NoRequest == [endpoint |-> "none"]

InitBoot ==
  /\ env \in [TOGETHER_API_KEY : BOOLEAN]
  /\ disk \in {d \in [Files -> UNION {FileTexts(f) : f \in Files}] :
                 \A f \in Files : d[f] \in FileTexts(f)}
  /\ proc = "down"
  /\ standards = EmptyList
  /\ examples = EmptyList
  /\ glossary = EmptyList
  /\ boots = <<>>
  /\ last = NoRequest
  /\ asks = 0
  /\ lookedUpExplanations = 0
  /\ lookedUpFeedbacks = 0
  /\ outbound = 0
  /\ handled = 0

NextBoot == Startup \/ Exit

SpecBoot == InitBoot /\ [][NextBoot]_vars

----------------------------------------------------------------------------
(* TogetherAIClient, lines 45-84 *)

StatusOK == 200

ErrorPrefix == <<"Error: ">>

\* str(e): the message of a built-in or requests exception; "<status>: <detail>" for
\* an HTTPException
str(e) ==
  IF e.type = "HTTPException" THEN <<ToString(e.status), ": ">> \o e.msg ELSE e.msg

first_choice_text_Last(result) ==
  IF "choices" \notin DOMAIN result THEN Raise(Exc("KeyError", 0, <<"'choices'">>))
  ELSE IF Len(result.choices) = 0
  THEN Raise(Exc("IndexError", 0, <<"list index out of range">>))
  ELSE IF "text" \notin DOMAIN result.choices[Len(result.choices)]
  THEN Raise(Exc("KeyError", 0, <<"'text'">>))
  ELSE Return(result.choices[Len(result.choices)].text)

\* result["choices"][0]["text"], lines 80-81
first_choice_text(result) ==
  IF "choices" \notin DOMAIN result THEN Raise(Exc("KeyError", 0, <<"'choices'">>))
  ELSE IF Len(result.choices) = 0
  THEN Raise(Exc("IndexError", 0, <<"list index out of range">>))
  ELSE IF "text" \notin DOMAIN result.choices[1]
  THEN Raise(Exc("KeyError", 0, <<"'text'">>))
  ELSE Return(result.choices[1].text)

\* f"Error: {response.status_code}", line 77
status_error(response) == ErrorPrefix \o <<ToString(response.status_code)>>

\* the try block of lines 64-81, given what requests.post does
generate_try(prompt, out) ==
  IF out.kind = "raise" THEN Raise(out.exc)
  ELSE IF out.response.status_code # StatusOK THEN Return(status_error(out.response))
  ELSE IF out.response.json.tag = "raise" THEN out.response.json
  ELSE first_choice_text(out.response.json.value)

generate_catches_OnlyTransport(e) == e.type \in RequestExceptions

generate_catches_Nothing(e) == FALSE

\* `except Exception as e` of line 82: is e caught
generate_catches(e) == e.type \in ExceptionSubclasses

posts_made_Retry(out) ==
  IF out.kind = "raise" \/ out.response.status_code # StatusOK THEN 2 ELSE 1

\* how many times lines 68-72 run in one generate_text call
posts_made(out) == 1

\* generate_text: the posts it makes and how it completes
generate_text(prompt, out) ==
  LET r == generate_try(prompt, out) IN
    [posts |-> posts_made(out),
     completion |-> IF r.tag = "raise" /\ generate_catches(r.exc)
                    THEN Return(ErrorPrefix \o str(r.exc))
                    ELSE r]

\* what the completion service may do with one POST
Response(code, text, json) == [status_code |-> code, text |-> text, json |-> json]

Answered(body) == [kind |-> "response", response |-> Response(StatusOK, <<"json">>, Return(body))]

Texts == {<<>>, <<"Murabaha is...">>, <<"Error: ", "as the model wrote it">>}

TransportFailure == [kind |-> "raise", exc |-> Exc("ConnectionError", 0, <<"Connection refused">>)]
TimedOut == [kind |-> "raise", exc |-> Exc("Timeout", 0, <<"Read timed out">>)]
ServerError == [kind |-> "response", response |->
                  Response(500, <<"Internal Server Error">>,
                           Raise(Exc("JSONDecodeError", 0, <<"Expecting value">>)))]
RateLimited == [kind |-> "response", response |->
                  Response(429, <<"{error}">>, Return([error |-> <<"rate limit">>]))]
NotJson == [kind |-> "response", response |->
              Response(StatusOK, <<"<html>">>,
                       Raise(Exc("JSONDecodeError", 0, <<"Expecting value">>)))]
NoChoices == Answered([error |-> <<"overloaded">>])
EmptyChoices == Answered([choices |-> <<>>])
NoText == Answered([choices |-> <<[index |-> 0]>>])
TwoChoices == Answered([choices |-> <<[text |-> <<"first">>], [text |-> <<"second">>]>>])

Outcomes ==
  {TransportFailure, TimedOut, ServerError, RateLimited, NotJson, NoChoices,
   EmptyChoices, NoText, TwoChoices}
  \cup {Answered([choices |-> <<[text |-> x]>>]) : x \in Texts}

\* the outcomes each of the two calls of a feedback request is tried with
HandlerOutcomes ==
  {TransportFailure, ServerError, NoChoices}
  \cup {Answered([choices |-> <<[text |-> x]>>]) : x \in Texts \ {<<>>}}

----------------------------------------------------------------------------
(* IslamicFinanceStandardsExplainer, lines 118-211: the prompt templates *)

EnExplanation == "[en] You are an expert in Islamic Finance standards, particularly AAOIFI standards. Explain"
ArExplanation == "[ar] You are an expert in Islamic Finance standards, particularly AAOIFI standards. Explain"
EnFeedback == "[en] You are an expert in Islamic Finance standards. Compare"
ArFeedback == "[ar] You are an expert in Islamic Finance standards. Compare"
EnQuestion == "[en] The user has asked the following question about Islamic Finance:"
ArQuestion == "[ar] The user has asked the following question about Islamic Finance:"

\* the f-string of lines 125-138 or of lines 140-153
explanation_prompt(standard_title, scenario, language) ==
  IF language = "English"
  THEN <<EnExplanation, "Standard: ">> \o standard_title \o <<"Scenario: ">> \o scenario
         \o <<"Please explain: 1. 2. 3. 4.">>
  ELSE <<ArExplanation, "[ar] Standard: ">> \o standard_title \o <<"[ar] Scenario: ">>
         \o scenario \o <<"[ar] Please explain: 1. 2. 3. 4.">>

feedback_prompt_NoExpert(scenario, user_solution, expert_solution, language) ==
  IF language = "English"
  THEN <<EnFeedback, "Scenario: ">> \o scenario \o <<"User's solution:">> \o user_solution
         \o <<"Provide feedback. Rate their understanding on a scale of 1-10.">>
  ELSE <<ArFeedback, "[ar] Scenario: ">> \o scenario \o <<"[ar] User's solution:">>
         \o user_solution
         \o <<"[ar] Provide feedback. Rate their understanding on a scale of 1-10.">>

\* the f-string of lines 160-172 or of lines 174-186
feedback_prompt(scenario, user_solution, expert_solution, language) ==
  IF language = "English"
  THEN <<EnFeedback, "Scenario: ">> \o scenario \o <<"User's solution:">> \o user_solution
         \o <<"Expert solution:">> \o expert_solution
         \o <<"Provide feedback. Rate their understanding on a scale of 1-10.">>
  ELSE <<ArFeedback, "[ar] Scenario: ">> \o scenario \o <<"[ar] User's solution:">>
         \o user_solution \o <<"[ar] Expert solution:">> \o expert_solution
         \o <<"[ar] Provide feedback. Rate their understanding on a scale of 1-10.">>

\* the f-string of lines 193-200 or of lines 202-209
question_prompt(question, language) ==
  IF language = "English"
  THEN <<EnQuestion>> \o question \o <<"Provide a clear, detailed answer.">>
  ELSE <<ArQuestion>> \o question \o <<"[ar] Provide a clear, detailed answer.">>

\* one generate_text call as the explainer makes it: what was sent, what came back
Call(prompt, max_tokens, temperature, out) ==
  LET g == generate_text(prompt, out) IN
    [prompt |-> prompt, max_tokens |-> max_tokens, temperature |-> temperature,
     outcome |-> out, posts |-> g.posts, completion |-> g.completion]

explainer_get_explanation(standard, standard_title, scenario, language, out) ==
  Call(explanation_prompt(standard_title, scenario, language), 2048, "0.5", out)

explainer_get_feedback(scenario, user_solution, expert_solution, language, out) ==
  Call(feedback_prompt(scenario, user_solution, expert_solution, language), 1024, "0.5", out)

explainer_ask_custom_question(question, language, out) ==
  Call(question_prompt(question, language), 1536, "0.7", out)

----------------------------------------------------------------------------
(* The POST endpoints, lines 233-318 *)

\* what a handler's try block did: the generation calls made, and its completion
Did(calls, completion) == [calls |-> calls, completion |-> completion]

\* next((s for s in standards if s["id"] == standard_id), None): the matches in order;
\* None is the empty sequence, a hit is the first match
find_standard(standard_id) == SelectSeq(standards, LAMBDA s : s.id = standard_id)

find_example_Any(standard_id) == examples

find_example(standard_id) == SelectSeq(examples, LAMBDA e : e.standard_id = standard_id)

\* `not standard`, `not example`
is_none(found) == Len(found) = 0

title_key_AnyCase(language) ==
  IF language \in {"English", "english"} THEN "title_en" ELSE "title_ar"

title_key(language) == IF language = "English" THEN "title_en" ELSE "title_ar"

scenario_key(language) == IF language = "English" THEN "scenario_en" ELSE "scenario_ar"

HTTPException(status_code, detail) == Exc("HTTPException", status_code, detail)

\* lines 236-257
explanation_try(request, o1) ==
  LET standard == find_standard(request.standard_id)
      example == find_example(request.standard_id)
  IN IF is_none(standard)
     THEN Did(<<>>, Raise(HTTPException(404, <<"Standard not found">>)))
     ELSE IF is_none(example)
     THEN Did(<<>>, Raise(HTTPException(404, <<"Example not found">>)))
     ELSE LET c == explainer_get_explanation(request.standard_id,
                     standard[1][title_key(request.language)], request.scenario,
                     request.language, o1)
          IN IF c.completion.tag = "raise" THEN Did(<<c>>, c.completion)
             ELSE Did(<<c>>, Return([explanation |-> c.completion.value]))

\* lines 266-299
feedback_try(request, o1, o2) ==
  LET standard == find_standard(request.standard_id)
      example == find_example(request.standard_id)
  IN IF is_none(standard)
     THEN Did(<<>>, Raise(HTTPException(404, <<"Standard not found">>)))
     ELSE IF is_none(example)
     THEN Did(<<>>, Raise(HTTPException(404, <<"Example not found">>)))
     ELSE LET scenario == example[1][scenario_key(request.language)]
              c1 == explainer_get_explanation(request.standard_id,
                      standard[1][title_key(request.language)], scenario,
                      request.language, o1)
          IN IF c1.completion.tag = "raise" THEN Did(<<c1>>, c1.completion)
             ELSE LET expert_solution == c1.completion.value
                      c2 == explainer_get_feedback(scenario, request.user_solution,
                              expert_solution, request.language, o2)
                  IN IF c2.completion.tag = "raise" THEN Did(<<c1, c2>>, c2.completion)
                     ELSE Did(<<c1, c2>>,
                              Return([feedback |-> c2.completion.value,
                                      expert_solution |-> expert_solution]))

\* lines 308-314
ask_try(request, o1) ==
  LET c == explainer_ask_custom_question(request.question, request.language, o1)
  IN IF c.completion.tag = "raise" THEN Did(<<c>>, c.completion)
     ELSE Did(<<c>>, Return([answer |-> c.completion.value]))

\* `except Exception as e` of lines 259, 301 and 316: is e caught
handler_catches(e) == e.type \in ExceptionSubclasses

\* the except block: raise HTTPException(status_code=500, detail=str(e))
handler_except(did) ==
  IF did.completion.tag = "raise" /\ handler_catches(did.completion.exc)
  THEN Did(did.calls, Raise(HTTPException(500, str(did.completion.exc))))
  ELSE did

\* what the framework sends for a handler that returned or raised
respond(did) ==
  IF did.completion.tag = "return"
  THEN [status |-> StatusOK, body |-> did.completion.value]
  ELSE IF did.completion.exc.type = "HTTPException"
  THEN [status |-> did.completion.exc.status, body |-> [detail |-> did.completion.exc.msg]]
  ELSE [status |-> 500, body |-> [detail |-> <<"Internal Server Error">>]]

get_explanation(request, o1) == handler_except(explanation_try(request, o1))

get_feedback(request, o1, o2) == handler_except(feedback_try(request, o1, o2))

ask_question(request, o1) == handler_except(ask_try(request, o1))

----------------------------------------------------------------------------
(* Requests *)

Languages == {"English", "Arabic", "english", ""}

StandardIds == {"FAS1", "FAS2", "FAS3"}

ExplanationRequests ==
  [standard_id : StandardIds, scenario : {<<"We sell goods at cost plus profit">>, <<>>},
   language : Languages]

FeedbackRequests ==
  [standard_id : StandardIds, user_solution : {<<"Dr Asset", "Cr Cash">>},
   language : Languages]

QuestionRequests == [question : {<<"What is Murabaha?">>}, language : Languages]

\* both lookups of a request for standard_id hit
LookupsHit(standard_id) ==
  /\ \E i \in 1..Len(standards) : standards[i].id = standard_id
  /\ \E j \in 1..Len(examples) : examples[j].standard_id = standard_id

RECURSIVE Posts(_)
Posts(calls) == IF Len(calls) = 0 THEN 0 ELSE calls[1].posts + Posts(Tail(calls))

Handle(endpoint, request, did) ==
  /\ last' = [endpoint |-> endpoint, request |-> request, response |-> respond(did),
              calls |-> did.calls]
  /\ outbound' = outbound + Posts(did.calls)
  /\ handled' = handled + 1
  /\ UNCHANGED bootVars

Explanation ==
  /\ proc = "up"
  /\ handled < MaxRequests
  /\ \E request \in ExplanationRequests, o1 \in Outcomes :
       /\ Handle("explanation", request, get_explanation(request, o1))
       /\ lookedUpExplanations' =
            lookedUpExplanations + (IF LookupsHit(request.standard_id) THEN 1 ELSE 0)
       /\ UNCHANGED <<asks, lookedUpFeedbacks>>

Feedback ==
  /\ proc = "up"
  /\ handled < MaxRequests
  /\ \E request \in FeedbackRequests, o1 \in HandlerOutcomes, o2 \in HandlerOutcomes :
       /\ Handle("feedback", request, get_feedback(request, o1, o2))
       /\ lookedUpFeedbacks' =
            lookedUpFeedbacks + (IF LookupsHit(request.standard_id) THEN 1 ELSE 0)
       /\ UNCHANGED <<asks, lookedUpExplanations>>

Ask ==
  /\ proc = "up"
  /\ handled < MaxRequests
  /\ \E request \in QuestionRequests, o1 \in Outcomes :
       /\ Handle("ask", request, ask_question(request, o1))
       /\ asks' = asks + 1
       /\ UNCHANGED <<lookedUpExplanations, lookedUpFeedbacks>>

\* the disks the serving process is started over: every file present and well-formed
DataDisks ==
  {d \in [Files -> UNION {FileTexts(f) : f \in Files}] :
     /\ d["standards"] \in {json_dump(<<>>), json_dump(<<S1, S2>>)}
     /\ d["examples"] \in {json_dump(<<>>), json_dump(<<E1, E3>>)}
     /\ d["glossary"] = json_dump(<<G1>>)}

\* the state once the module has been imported over one of DataDisks
Init ==
  /\ env = [TOGETHER_API_KEY |-> TRUE]
  /\ \E d \in DataDisks :
       LET m == module_import(env, d) IN
         /\ disk = m.disk
         /\ standards = m.standards
         /\ examples = m.examples
         /\ glossary = m.glossary
         /\ boots = <<[before |-> d, after |-> m.disk, path |-> m.path,
                       standards |-> m.standards, examples |-> m.examples,
                       glossary |-> m.glossary]>>
  /\ proc = "up"
  /\ last = NoRequest
  /\ asks = 0
  /\ lookedUpExplanations = 0
  /\ lookedUpFeedbacks = 0
  /\ outbound = 0
  /\ handled = 0

Next == Explanation \/ Feedback \/ Ask

Spec == Init /\ [][Next]_vars

----------------------------------------------------------------------------
(* Vocabulary of the properties *)

LastIs(endpoint) == last.endpoint = endpoint

LastLooksUp == last.endpoint \in {"explanation", "feedback"}

LastMisses == LastLooksUp /\ ~LookupsHit(last.request.standard_id)

LastHits == LastLooksUp /\ LookupsHit(last.request.standard_id)

LastCalls == IF last.endpoint = "none" THEN <<>> ELSE last.calls

\* the outbound call failed upstream: no response at all, or a status other than 200
UpstreamFailed(o) == o.kind = "raise" \/ o.response.status_code # 200

\* a 200 response whose body is not JSON or has no choices[0].text
Malformed200(o) ==
  /\ o.kind = "response"
  /\ o.response.status_code = 200
  /\ \/ o.response.json.tag = "raise"
     \/ "choices" \notin DOMAIN o.response.json.value
     \/ Len(o.response.json.value.choices) = 0
     \/ "text" \notin DOMAIN o.response.json.value.choices[1]

WellFormed200(o) == o.kind = "response" /\ o.response.status_code = 200 /\ ~Malformed200(o)

IsString(v) == \A k \in 1..Len(v) : v[k] \in STRING

\* the first loaded standard / example with this id
FirstStandard(id) ==
  standards[CHOOSE i \in 1..Len(standards) :
              standards[i].id = id /\ \A j \in 1..(i - 1) : standards[j].id # id]

FirstExample(id) ==
  examples[CHOOSE i \in 1..Len(examples) :
             examples[i].standard_id = id /\ \A j \in 1..(i - 1) : examples[j].standard_id # id]

----------------------------------------------------------------------------
(* Properties of the request handlers, checked under Spec *)

\* C1: a request to the explanation or the feedback handler whose standard_id matches
\* no loaded standard, or a standard but no loaded example, is answered with status 404.
C1_LookupMissIs404 == LastMisses => last.response.status = 404

\* C2: a request to the explanation or the feedback handler whose standard or example
\* lookup misses makes no generate_text call and no outbound request.
C2_NoGenerationOnMiss == LastMisses => (Len(last.calls) = 0 /\ Posts(last.calls) = 0)

C2_Witness ==
  /\ LastIs("feedback")
  /\ \E i \in 1..Len(standards) : standards[i].id = last.request.standard_id
  /\ ~\E j \in 1..Len(examples) : examples[j].standard_id = last.request.standard_id
  /\ Len(last.calls) = 0

\* what C3 says of the two calls of a feedback request: the explanation call, then the
\* feedback call, whose prompt holds the text the first call returned
TwoCallsInSequence ==
  /\ Len(last.calls) = 2
  /\ last.calls[1].prompt[1] \in {EnExplanation, ArExplanation}
  /\ last.calls[2].prompt[1] \in {EnFeedback, ArFeedback}
  /\ last.calls[1].completion.tag = "return"
  /\ Contains(last.calls[2].prompt, last.calls[1].completion.value)

\* C3 as stated: every feedback request issues exactly two generation calls in sequence,
\* the second prompt holding the first call's returned text verbatim.
C3_AlwaysTwoCalls == LastIs("feedback") => TwoCallsInSequence

\* C3 as amended: every feedback request whose standard and example lookups both succeed
\* issues exactly two generation calls in sequence, the second prompt holding the first
\* call's returned text verbatim, also when that text is an "Error: ..." sentinel; the
\* handler then still answers with both texts.
C3_TwoCallsWhenLookedUp ==
  (LastIs("feedback") /\ LastHits) =>
     /\ TwoCallsInSequence
     /\ last.response.status = 200
     /\ last.response.body.expert_solution = last.calls[1].completion.value

C3_Witness ==
  /\ LastIs("feedback")
  /\ LastHits
  /\ Len(last.calls) = 2
  /\ UpstreamFailed(last.calls[1].outcome)
  /\ StartsWith(last.calls[1].completion.value, <<"Error: ">>)
  /\ Contains(last.calls[2].prompt, last.calls[1].completion.value)

\* C4: generate_text never raises and always returns a string: exactly
\* "Error: <status code>" on a status other than 200, and a string beginning with
\* "Error: " on a transport failure or a malformed 200 response.
C4_GenerateTextNeverRaises ==
  \A i \in 1..Len(LastCalls) :
    LET c == last.calls[i] IN
      /\ c.completion.tag = "return"
      /\ IsString(c.completion.value)
      /\ (c.outcome.kind = "response" /\ c.outcome.response.status_code # 200) =>
           c.completion.value = <<"Error: ", ToString(c.outcome.response.status_code)>>
      /\ (c.outcome.kind = "raise" \/ Malformed200(c.outcome)) =>
           StartsWith(c.completion.value, <<"Error: ">>)

C4_Witness ==
  /\ LastIs("ask")
  /\ Malformed200(last.calls[1].outcome)
  /\ "choices" \in DOMAIN last.calls[1].outcome.response.json.value
  /\ last.calls[1].completion.tag = "return"
  /\ StartsWith(last.calls[1].completion.value, <<"Error: ">>)

\* C5: on a 200 response whose body is {choices: [{text: X}, ...]}, generate_text
\* returns exactly X, the text of the first choice.
C5_FirstChoiceVerbatim ==
  \A i \in 1..Len(LastCalls) :
    LET c == last.calls[i] IN
      WellFormed200(c.outcome) =>
        /\ c.completion.tag = "return"
        /\ c.completion.value = c.outcome.response.json.value.choices[1].text

C5_Witness ==
  /\ LastIs("ask")
  /\ WellFormed200(last.calls[1].outcome)
  /\ Len(last.calls[1].outcome.response.json.value.choices) = 2
  /\ last.response.body.answer = <<"first">>

\* the field of the response that carries the text of the i-th call
Carrier(i) ==
  CASE LastIs("ask") -> last.response.body.answer
    [] LastIs("explanation") -> last.response.body.explanation
    [] LastIs("feedback") /\ i = 1 -> last.response.body.expert_solution
    [] LastIs("feedback") /\ i = 2 -> last.response.body.feedback

\* C6: when a generation call of a request fails upstream (no response, or a status
\* other than 200), the handler still answers 200 and the answer / explanation /
\* expert_solution / feedback field carries the "Error: ..." sentinel.
C6_UpstreamFailureIsSwallowed ==
  \A i \in 1..Len(LastCalls) :
    UpstreamFailed(last.calls[i].outcome) =>
      /\ last.response.status = 200
      /\ StartsWith(Carrier(i), <<"Error: ">>)
      /\ Carrier(i) = last.calls[i].completion.value

C6_Witness ==
  /\ LastIs("explanation")
  /\ LastHits
  /\ last.calls[1].outcome.kind = "raise"
  /\ last.response.status = 200
  /\ StartsWith(last.response.body.explanation, <<"Error: ">>)

C10_NoRetry ==
  /\ \A i \in 1..Len(LastCalls) : last.calls[i].posts <= 1
  /\ LastIs("ask") => Len(last.calls) = 1
  /\ (LastIs("explanation") /\ LastHits) => Len(last.calls) = 1
  /\ outbound = asks + lookedUpExplanations + 2 * lookedUpFeedbacks

C10_Witness ==
  /\ handled = 2
  /\ asks = 1
  /\ lookedUpFeedbacks = 1
  /\ outbound = 3
  /\ LastIs("feedback")
  /\ UpstreamFailed(last.calls[1].outcome)
  /\ UpstreamFailed(last.calls[2].outcome)

----------------------------------------------------------------------------
(* Properties of the startup, checked under SpecBoot *)

NothingOnDisk(d) == \A f \in Files : d[f] = Absent

AllEmpty(b) == b.standards = <<>> /\ b.examples = <<>> /\ b.glossary = <<>>

Started(b) == b.path \in {"loaded", "bootstrap"}

Loaded(b, f) ==
  CASE f = "standards" -> b.standards [] f = "examples" -> b.examples
    [] f = "glossary" -> b.glossary

\* C7: a startup with none of the three data files present leaves three empty lists,
\* and the next startup, over the files the first one wrote, loads three empty lists
\* without taking the missing-file path.
C7_BootstrapRoundTrip ==
  \A i \in 1..Len(boots) :
    (NothingOnDisk(boots[i].before) /\ env.TOGETHER_API_KEY) =>
      /\ boots[i].path = "bootstrap"
      /\ AllEmpty(boots[i])
      /\ (i = Len(boots) /\ proc = "up") =>
           (standards = <<>> /\ examples = <<>> /\ glossary = <<>>)
      /\ i < Len(boots) =>
           /\ boots[i + 1].before = boots[i].after
           /\ boots[i + 1].path = "loaded"
           /\ AllEmpty(boots[i + 1])

C7_Witness ==
  /\ Len(boots) = 2
  /\ NothingOnDisk(boots[1].before)
  /\ boots[1].path = "bootstrap"
  /\ boots[2].path = "loaded"
  /\ proc = "up"
  /\ standards = <<>> /\ examples = <<>> /\ glossary = <<>>

\* C8: a startup writes a data file only if it is absent: a file that exists before a
\* startup has the same content after it, and the list loaded from it is its content,
\* whichever of the other files are present.  Stated for the files that hold a JSON
\* array, the only ones a list can be loaded from.
C8_ExistingFilesKept ==
  \A i \in 1..Len(boots) : \A f \in Files :
    (Started(boots[i]) /\ boots[i].before[f] # Absent /\ IsJsonArray(boots[i].before[f])) =>
      /\ boots[i].after[f] = boots[i].before[f]
      /\ Loaded(boots[i], f) = json_load(boots[i].before[f]).value

====
